---- MODULE Spec2Model ----
(***************************************************************************)
(* Model of app.py: a FastAPI application with one JSON route,             *)
(* GET /api/qubits, and a StaticFiles mount at "/" over the directory      *)
(* "dist" in html mode, served by uvicorn.                                 *)
(*                                                                         *)
(* A URL path is the sequence of its segments after the leading "/":       *)
(* "/" is <<"">>, "/docs" is <<"docs">>, "/docs/" is <<"docs", "">>.       *)
(* A path under the static root is the sequence of its components; the     *)
(* root itself is <<>>.  Numbers of the qubit records are in thousandths   *)
(* (0.707 is 707, 1.57 is 1570).                                           *)
(***************************************************************************)
EXTENDS Naturals, Sequences, FiniteSets, TLC

VARIABLES
  pc,        \* the process: start, serving, mount_failed, bind_failed, stopped
  fs,        \* the file system under (and including) the static root
  req,       \* the request handled last
  resp,      \* the response to it
  apiLog,    \* the body of the first API response, and how many there were
  last,      \* the step taken last
  inflight   \* SpecConc: the requests in flight, each with its own progress

vars == <<pc, fs, req, resp, apiLog, last, inflight>>

\* ------------------------------------------------------------- bounds

\* File contents (and the ETag that goes with each) are 1..MaxContent.
MaxContent == 2

\* Requests in flight at once in SpecConc.
MaxInFlight == 2

\* ------------------------------------------------------ the file system

Root == <<>>

IndexName == "index.html"

NotFoundName == "404.html"

\* The paths under the static root that the model's file systems may hold.
Nodes ==
  { Root, <<IndexName>>, <<NotFoundName>>, <<"docs">>, <<"docs", IndexName>>,
    <<"api">>, <<"api", "qubits">> }

Absent == [kind |-> "absent", data |-> 0]

Dir == [kind |-> "dir", data |-> 0]

File(c) == [kind |-> "file", data |-> c]

\* The nodes that are regular files in every file system of the model.
Leaves == { <<IndexName>>, <<NotFoundName>>, <<"docs", IndexName>> }

\* The nodes whose content the model varies; the others hold content 1.
Versioned == { <<IndexName>>, <<"docs">> }

Contents(n) == IF n \in Versioned THEN 1..MaxContent ELSE {1}

NodeVals(n) ==
  IF n \in Leaves THEN {Absent} \cup {File(c) : c \in Contents(n)}
  ELSE IF n = Root \/ n = <<"api">> THEN {Absent, Dir}
  ELSE {Absent, Dir} \cup {File(c) : c \in Contents(n)}

Parent(n) == SubSeq(n, 1, Len(n) - 1)

\* A node exists only inside an existing directory.
WellFormed(f) ==
  \A n \in Nodes \ {Root} : f[n].kind # "absent" => f[Parent(n)].kind = "dir"

Children(n) == { m \in Nodes : Len(m) > Len(n) /\ SubSeq(m, 1, Len(n)) = n }

\* ------------------------------------------------------------ requests

ApiPath == <<"api", "qubits">>

Methods == {"GET", "HEAD", "POST"}

RequestPaths ==
  { <<"">>, <<"docs">>, <<"docs", "">>, ApiPath, <<"api", "qubits", "">>,
    <<"missing.txt">> }

\* Query strings: 0 is none.
QueryStrings == {0, 1}

\* If-None-Match: 0 is no header, 1 is the ETag of content 1.
IfNoneMatch == {0, 1}

Requests ==
  [method : Methods, path : RequestPaths, query : QueryStrings, inm : IfNoneMatch]

NoReq == [method |-> "none", path |-> <<>>, query |-> 0, inm |-> 0]

\* ----------------------------------------------------------- responses

EmptyBody == [type |-> "empty", results |-> <<>>, data |-> 0]

JsonBody(results) == [type |-> "json", results |-> results, data |-> 0]

FileBody(c) == [type |-> "file", results |-> <<>>, data |-> c]

DetailBody == [type |-> "detail", results |-> <<>>, data |-> 0]

NoLocation == [path |-> <<>>, query |-> 0]

NoResp == [status |-> 0, by |-> "none", body |-> EmptyBody, location |-> NoLocation]

\* ------------------------------------------------- the API route handler

QubitResults ==
  << [id |-> 1, state |-> "entangled", amplitude |-> 707, phase |-> 0],
     [id |-> 2, state |-> "superposition", amplitude |-> 500, phase |-> 1570] >>

\* Mutant: the records come back in the other order.
get_qubits_swapped == <<QubitResults[2], QubitResults[1]>>

\* Mutant: the handler keeps state, and answers differently once called.
get_qubits_stateful == IF apiLog.calls = "none" THEN QubitResults ELSE <<QubitResults[1]>>

get_qubits == QubitResults

\* FastAPI serialises the handler's return value as a 200 JSON response.
ApiResponse ==
  [status |-> 200, by |-> "api", body |-> JsonBody(get_qubits),
   location |-> NoLocation]

\* ------------------------------------------------------ the static mount

\* StaticFiles.get_path: the URL path's segments joined and normalised,
\* which drops the empty ones ("/" and "/docs/" lose their trailing slash).
get_path(path) == SelectSeq(path, LAMBDA s : s # "")

\* Mutant: only the root counts as a directory URL.
EndsWithSlashRootOnly(path) == path = <<"">>

\* scope["path"].endswith("/")
EndsWithSlash(path) == path[Len(path)] = ""

\* StaticFiles.lookup_path: the stat result of a path under the root.
lookup_path(f, rel) == IF rel \in Nodes THEN f[rel] ELSE Absent

\* Mutant: the exception escapes as a server error.
HttpErrorUnhandled(code) ==
  [status |-> 500, by |-> "static", body |-> DetailBody, location |-> NoLocation]

HttpError(code) ==
  [status |-> code, by |-> "static", body |-> DetailBody, location |-> NoLocation]

\* FileResponse: the file's content, which a HEAD request gets no body of.
FileResponse(st, r, code) ==
  [status |-> code, by |-> "static",
   body |-> IF r.method = "HEAD" THEN EmptyBody ELSE FileBody(st.data),
   location |-> NoLocation]

\* Mutant: any If-None-Match counts as a match.
file_response_any_tag(st, r) ==
  IF r.inm # 0
  THEN [status |-> 304, by |-> "static", body |-> EmptyBody, location |-> NoLocation]
  ELSE [status |-> 200, by |-> "static",
        body |-> IF r.method = "HEAD" THEN EmptyBody ELSE FileBody(st.data),
        location |-> NoLocation]

\* StaticFiles.file_response: 304 when If-None-Match names the file's ETag.
file_response(st, r) ==
  IF r.inm # 0 /\ r.inm = st.data
  THEN [status |-> 304, by |-> "static", body |-> EmptyBody, location |-> NoLocation]
  ELSE FileResponse(st, r, 200)

\* RedirectResponse to the same URL with "/" appended to its path.
RedirectResponse(r) ==
  [status |-> 307, by |-> "static", body |-> EmptyBody,
   location |-> [path |-> Append(r.path, ""), query |-> r.query]]

\* StaticFiles.get_response with html=True, st being the stat result of the
\* request's path.
get_response(f, r, st) ==
  IF r.method \notin {"GET", "HEAD"} THEN HttpError(405)
  ELSE IF st.kind = "file" THEN file_response(st, r)
  ELSE LET idx == lookup_path(f, Append(get_path(r.path), IndexName))
           nf == lookup_path(f, <<NotFoundName>>)
       IN IF st.kind = "dir" /\ idx.kind = "file"
          THEN IF ~EndsWithSlash(r.path) THEN RedirectResponse(r)
               ELSE file_response(idx, r)
          ELSE IF nf.kind = "file" THEN FileResponse(nf, r, 404)
          ELSE HttpError(404)

StaticResponse(f, r) == get_response(f, r, lookup_path(f, get_path(r.path)))

\* ------------------------------------------------------------- routing

\* The API route: its path matches exactly, its methods are the decorator's.
RouteMatches(r) ==
  IF r.path # ApiPath THEN "none"
  ELSE IF r.method = "GET" THEN "full" ELSE "partial"

\* Mutant: the mount is registered before the route, and takes every request.
DispatchMountFirst(r) == "static"

\* The router takes the first route that matches in full; the mount at "/",
\* registered second, matches every path in full.
Dispatch(r) == IF RouteMatches(r) = "full" THEN "api" ELSE "static"

Serve(f, r) == IF Dispatch(r) = "api" THEN ApiResponse ELSE StaticResponse(f, r)

\* ----------------------------------------------------------- the process

AllVals == {Absent, Dir} \cup {File(c) : c \in 1..MaxContent}

FsConfigs ==
  { f \in [Nodes -> AllVals] : (\A n \in Nodes : f[n] \in NodeVals(n)) /\ WellFormed(f) }

Slots == 1..MaxInFlight

IdleSlot == [stage |-> "idle", req |-> NoReq, st |-> Absent, resp |-> NoResp]

NoBody == [type |-> "none", results |-> <<>>, data |-> 0]

NoApiLog == [first |-> NoBody, calls |-> "none"]

Logged(log, body) ==
  IF log.calls = "none" THEN [first |-> body, calls |-> "one"]
  ELSE [first |-> log.first, calls |-> "many"]

Init ==
  /\ pc = "start"
  /\ fs \in FsConfigs
  /\ req = NoReq
  /\ resp = NoResp
  /\ apiLog = NoApiLog
  /\ last = "none"
  /\ inflight = [i \in Slots |-> IdleSlot]

\* Mutant: the mount does not check its directory (check_dir=False).
MountUnchecked == TRUE

\* StaticFiles(directory="dist") raises when the directory is missing, which
\* ends the module's execution before uvicorn.run.
MountOk == fs[Root].kind = "dir"

\* Module execution: the mount, then uvicorn.run, whose bind may fail.
Boot ==
  /\ pc = "start"
  /\ \E bound \in BOOLEAN :
       pc' = IF ~MountOk THEN "mount_failed"
             ELSE IF bound THEN "serving" ELSE "bind_failed"
  /\ last' = "boot"
  /\ UNCHANGED <<fs, req, resp, apiLog, inflight>>

\* Mutant: an error response ends the process.
PcAfterCrash(rsp) == IF rsp.status >= 400 THEN "stopped" ELSE pc

\* Mutant: the mount writes the not-found page it could not find.
FsAfterWrite(f, r) ==
  IF f[<<NotFoundName>>].kind = "absent" THEN [f EXCEPT ![<<NotFoundName>>] = File(1)]
  ELSE f

\* uvicorn's loop goes on after a response, whatever the response was.
PcAfter(rsp) == pc

\* Neither handler writes: get_qubits builds a literal, the mount only reads.
FsAfter(f, r) == f

\* A request routed to get_qubits, handled start to end.
ApiRequest ==
  /\ pc = "serving"
  /\ \E r \in Requests :
       /\ Dispatch(r) = "api"
       /\ req' = r
       /\ resp' = Serve(fs, r)
       /\ apiLog' = Logged(apiLog, Serve(fs, r).body)
       /\ pc' = PcAfter(Serve(fs, r))
       /\ fs' = FsAfter(fs, r)
  /\ last' = "api"
  /\ UNCHANGED inflight

\* A request routed to the static mount, handled start to end.
StaticRequest ==
  /\ pc = "serving"
  /\ \E r \in Requests :
       /\ Dispatch(r) = "static"
       /\ req' = r
       /\ resp' = Serve(fs, r)
       /\ pc' = PcAfter(Serve(fs, r))
       /\ fs' = FsAfter(fs, r)
  /\ last' = "static"
  /\ UNCHANGED <<apiLog, inflight>>

\* The export step, or anything else outside the process, creates, rewrites
\* or removes a path under the static root (removing a directory removes
\* what is in it); it may create the root, and does not remove it.
ExternalWrite ==
  /\ \E n \in Nodes, v \in AllVals :
       /\ v \in NodeVals(n)
       /\ v # fs[n]
       /\ IF n = Root THEN v = Dir ELSE fs[Parent(n)].kind = "dir"
       /\ fs' = [m \in Nodes |->
                   IF m = n THEN v
                   ELSE IF m \in Children(n) /\ v.kind # "dir" THEN Absent
                   ELSE fs[m]]
  /\ last' = "write"
  /\ UNCHANGED <<pc, req, resp, apiLog, inflight>>

\* A signal ends the process, and what it held in memory with it.
Terminate ==
  /\ pc = "serving"
  /\ pc' = "stopped"
  /\ req' = NoReq
  /\ resp' = NoResp
  /\ apiLog' = NoApiLog
  /\ last' = "stop"
  /\ UNCHANGED <<fs, inflight>>

Next == Boot \/ ApiRequest \/ StaticRequest \/ ExternalWrite \/ Terminate

Spec == Init /\ [][Next]_vars

\* ------------------------------------------------- requests in flight

\* The file systems SpecConc starts from: an exported site with an index
\* document and a docs directory, with or without its own index.
ConcFs ==
  { f \in FsConfigs :
      /\ f[Root] = Dir
      /\ f[<<IndexName>>] = File(1)
      /\ f[<<NotFoundName>>] = Absent
      /\ f[<<"api">>] = Absent
      /\ f[<<"docs">>] = Dir }

ConcRequests ==
  { r \in Requests :
      /\ r.method \in {"GET", "POST"}
      /\ r.path \in {<<"">>, <<"docs">>, ApiPath, <<"missing.txt">>}
      /\ r.query = 0
      /\ r.inm = 0 }

InitConc ==
  /\ pc = "start"
  /\ fs \in ConcFs
  /\ req = NoReq
  /\ resp = NoResp
  /\ apiLog = NoApiLog
  /\ last = "none"
  /\ inflight = [i \in Slots |-> IdleSlot]

\* Mutant: one scope, that of some request in flight, is shared by all.
ScopeShared(i) == inflight[CHOOSE j \in Slots : inflight[j].stage # "idle"].req

\* Each request is handled with the scope uvicorn built for it.
ScopeOf(i) == inflight[i].req

\* uvicorn reads a request off a connection and calls the application.
Accept(i) ==
  /\ pc = "serving"
  /\ inflight[i].stage = "idle"
  /\ \E r \in ConcRequests :
       inflight' = [inflight EXCEPT ![i] = [IdleSlot EXCEPT !.stage = "accepted", !.req = r]]
  /\ last' = "accept"
  /\ UNCHANGED <<pc, fs, req, resp, apiLog>>

\* The router picks the route.
Route(i) ==
  /\ inflight[i].stage = "accepted"
  /\ inflight' = [inflight EXCEPT ![i].stage = Dispatch(ScopeOf(i))]
  /\ last' = "route"
  /\ UNCHANGED <<pc, fs, req, resp, apiLog>>

\* get_qubits runs (in the thread pool) and its value is serialised.
Endpoint(i) ==
  /\ inflight[i].stage = "api"
  /\ inflight' = [inflight EXCEPT ![i].stage = "done", ![i].resp = ApiResponse]
  /\ last' = "endpoint"
  /\ UNCHANGED <<pc, fs, req, resp, apiLog>>

\* The mount stats the request's path (in a worker thread).
Lookup(i) ==
  /\ inflight[i].stage = "static"
  /\ inflight' = [inflight EXCEPT ![i].stage = "looked",
                                    ![i].st = lookup_path(fs, get_path(ScopeOf(i).path))]
  /\ last' = "lookup"
  /\ UNCHANGED <<pc, fs, req, resp, apiLog>>

\* The mount builds the response from the stat result.
Respond(i) ==
  /\ inflight[i].stage = "looked"
  /\ inflight' = [inflight EXCEPT ![i].stage = "done",
                                    ![i].resp = get_response(fs, ScopeOf(i), inflight[i].st)]
  /\ last' = "respond"
  /\ UNCHANGED <<pc, fs, req, resp, apiLog>>

\* The response is sent and the request is over.
Send(i) ==
  /\ inflight[i].stage = "done"
  /\ inflight' = [inflight EXCEPT ![i] = IdleSlot]
  /\ last' = "send"
  /\ UNCHANGED <<pc, fs, req, resp, apiLog>>

NextConc ==
  \/ Boot
  \/ \E i \in Slots :
       Accept(i) \/ Route(i) \/ Endpoint(i) \/ Lookup(i) \/ Respond(i) \/ Send(i)

SpecConc == InitConc /\ [][NextConc]_vars

\* --------------------------------------------------------------- claims

\* The state is the one a request has just been handled in: fs is the file
\* system the handler saw.
Handled == last \in {"api", "static"}

\* What the request's path resolves to under the static root, and the index
\* document of that directory.
Resolved == lookup_path(fs, get_path(req.path))

ResolvedIndex == lookup_path(fs, Append(get_path(req.path), IndexName))

IsApiGet == req.method = "GET" /\ req.path = ApiPath

\* The request's URL path ends in "/".
TrailingSlash == req.path[Len(req.path)] = ""

\* If-None-Match names the ETag of the file st.
TagMatches(st) == req.inm # 0 /\ req.inm = st.data

\* C1: every GET on /api/qubits is answered 200 with the two literal records,
\* id 1 then id 2, whatever the query string, the headers and the file system.
C1_ApiLiteral ==
  (Handled /\ IsApiGet) =>
    /\ resp.status = 200
    /\ resp.body.type = "json"
    /\ Len(resp.body.results) = 2
    /\ resp.body.results[1] =
         [id |-> 1, state |-> "entangled", amplitude |-> 707, phase |-> 0]
    /\ resp.body.results[2] =
         [id |-> 2, state |-> "superposition", amplitude |-> 500, phase |-> 1570]

C1_Witness ==
  Handled /\ IsApiGet /\ req.query = 1 /\ req.inm = 1 /\ resp.status = 200

\* C2: the body of every response of GET /api/qubits is the body of the
\* first one, whatever requests and file-system changes came between.
C2_SameBody == (Handled /\ IsApiGet) => resp.body = apiLog.first

C2_Witness ==
  /\ Handled /\ IsApiGet
  /\ apiLog.calls = "many"
  /\ fs[<<"api", "qubits">>].kind = "file"
  /\ resp.body = apiLog.first

NoCorrespondingFile ==
  Resolved.kind # "file" /\ ~(Resolved.kind = "dir" /\ ResolvedIndex.kind = "file")

C7_StartupFails ==
  [][ /\ (pc = "start" /\ fs[Root].kind # "dir" /\ pc' # pc) => pc' = "mount_failed"
      /\ pc = "mount_failed" =>
           (pc' = "mount_failed" /\ resp = NoResp /\ resp' = NoResp
              /\ apiLog' = NoApiLog) ]_vars

C7_Witness == pc = "mount_failed" /\ fs[Root].kind = "dir" /\ resp = NoResp

\* C8: a serving process stays serving through every request, whatever the
\* response; it leaves the serving state by external termination only.
C8_StaysServing ==
  [][ /\ last' \in {"api", "static"} => (pc = "serving" /\ pc' = "serving")
      /\ (pc = "serving" /\ pc' # "serving") => last' = "stop" ]_vars

C8_Witness ==
  /\ pc = "serving" /\ last = "static" /\ resp.status = 404
  /\ apiLog.calls = "many"

\* C9: handling a request leaves the files under the static root, and their
\* contents, as they were.
C9_NoWrites == [][ last' \in {"api", "static"} => fs' = fs ]_vars

C9_Witness ==
  /\ last = "static" /\ resp.status = 404 /\ resp.body = DetailBody
  /\ fs[<<NotFoundName>>].kind = "absent"

\* C10: a request in flight among others gets the response it would get
\* handled alone, start to end, on the same file system.
C10_Independent ==
  \A i \in Slots :
    inflight[i].stage = "done" => inflight[i].resp = Serve(fs, inflight[i].req)

C10_Witness ==
  \E i, j \in Slots :
    /\ i # j
    /\ inflight[i].stage = "done"
    /\ inflight[j].stage \in {"accepted", "static", "looked"}
    /\ inflight[i].req.path # inflight[j].req.path
    /\ inflight[i].resp.status = 307
====
